---- MODULE Spec2Model ----
(***************************************************************************)
(* Model of the occupancy grid map (slam/grid_map.py), the inverse sensor  *)
(* model that writes it (slam/sensor_model.py) and the telemetry parser    *)
(* (slam/hardware.py).                                                     *)
(*                                                                         *)
(* Numbers.  Coordinates (cm) and cell values are integers.  Distances are *)
(* kept squared (the code takes the square root and compares; on integers  *)
(* d <= r is d*d <= r*r).  Angles are in half degrees: 720 is 2*pi.  The   *)
(* bearing of a lattice vector is exact when it lies on a marker direction *)
(* (k*90 + {0, 25, 45, 65} degrees) and is otherwise the midpoint of the   *)
(* two markers that enclose it, so every comparison of a bearing against   *)
(* theta +/- view_angle is exact when theta is a multiple of 90 degrees    *)
(* and view_angle is a marker.                                             *)
(***************************************************************************)
EXTENDS Integers, Sequences, FiniteSets, TLC

\* The map: the fields of OccupancyGridMap; last is the latest call on it
\* with its arguments and outcome, calls the number of calls made, and added
\* the sum of the deltas add_to_cell has added so far, per absolute cell.
\* The telemetry stream: yielded is what Hardware.updates has yielded, nread
\* the number of lines read, hstatus the state of the generator and hlast
\* the latest line with its outcome.
VARIABLES blocksize, cellsize, minrange, maxrange, grid, last, calls, added,
          yielded, nread, hstatus, hlast

mapVars == <<blocksize, cellsize, minrange, maxrange, grid, last, calls, added>>

hwVars == <<yielded, nread, hstatus, hlast>>

vars == <<blocksize, cellsize, minrange, maxrange, grid, last, calls, added,
          yielded, nread, hstatus, hlast>>

(* ------------------------------ bounds -------------------------------- *)

\* number of calls a client makes on one map
MaxCalls == 3

\* (blocksize, cellsize) pairs a map is constructed with
Configs == {<<100, 50>>, <<100, 25>>}

\* cartesian points (x, y) in cm handed to get_cell / add_to_cell
Points == {<<25, 25>>, <<75, -100>>, <<-50, 25>>, <<-150, -150>>}

\* deltas handed to add_to_cell
Deltas == {1, 2}

\* cone queries: apex (x, y) in cm, heading theta (a multiple of 90 degrees)
\* and full cone angle a in half degrees, radius r in cm.  The angles are
\* -90, 90, 180, 270 and 450 degrees.
ConeQueries ==
    {[x |-> 0, y |-> 0, theta |-> 0, a |-> 180, r |-> 50],
     [x |-> 0, y |-> 0, theta |-> 0, a |-> 180, r |-> 100],
     [x |-> 0, y |-> 0, theta |-> 180, a |-> 180, r |-> 100],
     [x |-> 25, y |-> -50, theta |-> -180, a |-> 360, r |-> 50],
     [x |-> 0, y |-> 0, theta |-> 720, a |-> 540, r |-> 50],
     [x |-> 0, y |-> 0, theta |-> 180, a |-> -180, r |-> 50],
     [x |-> 0, y |-> 0, theta |-> 0, a |-> 900, r |-> 100]}

\* frontier queries: apex, heading and radius (the cone angle is CONE_ANGLE)
FrontierQueries ==
    {[x |-> 0, y |-> 0, theta |-> 0, r |-> 50],
     [x |-> 25, y |-> -50, theta |-> 180, r |-> 100]}

\* sensor readings (left, front, right): <<>> is None, 9999 the wire sentinel
Readings == {[left |-> <<>>, front |-> <<>>, right |-> <<>>],
             [left |-> <<9999>>, front |-> <<131>>, right |-> <<>>],
             [left |-> <<50>>, front |-> <<9999>>, right |-> <<5>>]}

\* robot poses handed to update_map
RobotPoses == {[x |-> 0, y |-> 0, theta |-> -180], [x |-> 25, y |-> 25, theta |-> 0]}

\* lines of the telemetry stream
Lines == {<<"L", "0", "0", "3", "0", "F", "0", "2", "0", "0", "R", "0", "9", "9", "9", "t", "0", "1", "0", "0">>,
          <<"#", "n", "o", "t", "e">>,
          <<>>,
          <<" ", " ">>,
          <<" ", "L", "9", "9", "9", "9", "F", "5", "R", "0", "7", "t", "1", " ">>,
          <<"L", "1", "2">>,
          <<"e", "l", "1", "e", "r", "-", "2", "c", "o", "r", "3", "t", "4">>,
          <<"e", "l", "1", "e", "r", "2", "c", "o", "3", "t", "4">>,
          <<"h", "e", "l", "l", "o">>}

\* number of lines read from one stream
MaxLines == 3

(* ----------------------------- tuple_utils ---------------------------- *)

tadd(a, b) == <<a[1] + b[1], a[2] + b[2]>>

tsub(a, b) == <<a[1] - b[1], a[2] - b[2]>>

tmin(a, b) == <<IF a[1] <= b[1] THEN a[1] ELSE b[1], IF a[2] <= b[2] THEN a[2] ELSE b[2]>>

tmax(a, b) == <<IF a[1] >= b[1] THEN a[1] ELSE b[1], IF a[2] >= b[2] THEN a[2] ELSE b[2]>>

(* ------------------------------ arithmetic ---------------------------- *)

Abs(n) == IF n < 0 THEN -n ELSE n

\* math.copysign(1, n) on an integer n (0 is +0)
copysign1(n) == IF n < 0 THEN -1 ELSE 1

\* math.ceil(n / d) for n >= 0, d > 0
ceil(n, d) == (n + d - 1) \div d

\* round(n / d), d > 0: Python 3 rounds a tie to the even neighbour
round(n, d) ==
    LET q == n \div d
        r == n % d
    IN  IF 2 * r < d THEN q
        ELSE IF 2 * r > d THEN q + 1
        ELSE IF q % 2 = 0 THEN q ELSE q + 1

\* np.zeros(shape)
zeros(shape) == [i \in 0..(shape[1] - 1) |-> [j \in 0..(shape[2] - 1) |-> 0]]

\* grid.shape
Shape(g) == <<Cardinality(DOMAIN g), IF 0 \in DOMAIN g THEN Cardinality(DOMAIN g[0]) ELSE 0>>

(* ------------------------------ the map ------------------------------- *)

\* self.cells_per_block
cells_per_block(bs, cs) == bs \div cs

cartesian2grid(cs, minr, x, y) == <<round(y, cs) - minr[1], round(x, cs) - minr[2]>>

\* An assignment: v is evaluated once, then F on its value.
Bind(v, F(_)) == CHOOSE r \in {F(x) : x \in {v}} : TRUE

\* _increase_grid copying the old array to the corner of the new one
_increase_grid_copy_at_origin(m, cpb, out_of_bounds_pos) ==
    LET sign_row == copysign1(out_of_bounds_pos[1])
        sign_col == copysign1(out_of_bounds_pos[2])
        rel_pos == <<sign_row * cpb * ceil(Abs(1 + out_of_bounds_pos[1]), cpb),
                     sign_col * cpb * ceil(Abs(1 + out_of_bounds_pos[2]), cpb)>>
        new_pos == tadd(m.minrange, rel_pos)
        current_size == Shape(m.grid)
        new_minrange == tmin(m.minrange, new_pos)
        new_maxrange == tmax(m.maxrange, new_pos)
        new_size == tsub(new_maxrange, new_minrange)
        offset == <<0, 0>>
        offset_end == tadd(offset, current_size)
    IN  [minrange |-> new_minrange,
         maxrange |-> new_maxrange,
         grid |-> [i \in 0..(new_size[1] - 1) |-> [j \in 0..(new_size[2] - 1) |->
                    IF /\ offset[1] <= i /\ i < offset_end[1]
                       /\ offset[2] <= j /\ j < offset_end[2]
                    THEN m.grid[i - offset[1]][j - offset[2]]
                    ELSE 0]]]

\* _increase_grid moving maxrange by the added blocks, whatever their sign
_increase_grid_shift_maxrange(m, cpb, out_of_bounds_pos) ==
    LET sign_row == copysign1(out_of_bounds_pos[1])
        sign_col == copysign1(out_of_bounds_pos[2])
        rel_pos == <<sign_row * cpb * ceil(Abs(1 + out_of_bounds_pos[1]), cpb),
                     sign_col * cpb * ceil(Abs(1 + out_of_bounds_pos[2]), cpb)>>
        new_pos == tadd(m.minrange, rel_pos)
        current_size == Shape(m.grid)
        new_minrange == tmin(m.minrange, new_pos)
        new_maxrange == tadd(m.maxrange, rel_pos)
        new_size == tsub(new_maxrange, new_minrange)
        offset == tsub(m.minrange, new_minrange)
        offset_end == tadd(offset, current_size)
    IN  [minrange |-> new_minrange,
         maxrange |-> new_maxrange,
         grid |-> [i \in 0..(new_size[1] - 1) |-> [j \in 0..(new_size[2] - 1) |->
                    IF /\ offset[1] <= i /\ i < offset_end[1]
                       /\ offset[2] <= j /\ j < offset_end[2]
                    THEN m.grid[i - offset[1]][j - offset[2]]
                    ELSE 0]]]

\* A map value m is [minrange, maxrange, grid]; cpb is cells_per_block.
_increase_grid(m, cpb, out_of_bounds_pos) ==
    LET sign_row == copysign1(out_of_bounds_pos[1])
        sign_col == copysign1(out_of_bounds_pos[2])
        rel_pos == <<sign_row * cpb * ceil(Abs(1 + out_of_bounds_pos[1]), cpb),
                     sign_col * cpb * ceil(Abs(1 + out_of_bounds_pos[2]), cpb)>>
        new_pos == tadd(m.minrange, rel_pos)
        current_size == Shape(m.grid)
        new_minrange == tmin(m.minrange, new_pos)
        new_maxrange == tmax(m.maxrange, new_pos)
        new_size == tsub(new_maxrange, new_minrange)
        offset == tsub(m.minrange, new_minrange)
        offset_end == tadd(offset, current_size)
    IN  [minrange |-> new_minrange,
         maxrange |-> new_maxrange,
         grid |-> [i \in 0..(new_size[1] - 1) |-> [j \in 0..(new_size[2] - 1) |->
                    IF /\ offset[1] <= i /\ i < offset_end[1]
                       /\ offset[2] <= j /\ j < offset_end[2]
                    THEN m.grid[i - offset[1]][j - offset[2]]
                    ELSE 0]]]

\* The result is [status, row, col, m].  The recursion of the code is
\* deterministic in (m, x, y): when a growth step leaves the map as it was,
\* the retry repeats for ever and Python raises RecursionError.
RECURSIVE _get_cell(_, _, _, _, _)
_get_cell(m, cs, cpb, x, y) ==
    LET rc == cartesian2grid(cs, m.minrange, x, y)
        shape == Shape(m.grid)
    IN  IF rc[1] < 0 \/ rc[2] < 0 \/ rc[1] >= shape[1] \/ rc[2] >= shape[2]
        THEN Bind(_increase_grid(m, cpb, rc),
                  LAMBDA m2 :
                      IF m2 = m
                      THEN [status |-> "RecursionError", row |-> rc[1], col |-> rc[2], m |-> m]
                      ELSE _get_cell(m2, cs, cpb, x, y))
        ELSE [status |-> "ok", row |-> rc[1], col |-> rc[2], m |-> m]

(* ------------------------------ get_cone ------------------------------ *)

\* MAX_SIZE: side of the precalculated coordinate_grid
MAX_SIZE == 300

\* 2*pi and pi in half degrees
TwoPi == 720

Pi == 360

\* tan(25 degrees) = 0.46630766 as Tan25Num / Tan25Den; no lattice vector with
\* components below 370 lies between this fraction and the tangent
Tan25Num == 4663

Tan25Den == 10000

\* the bearing of (u, v), u > 0, v >= 0, in [0, 180)
FirstQuadrant(u, v) ==
    IF v = 0 THEN 0
    ELSE IF v * Tan25Den < u * Tan25Num THEN 25
    ELSE IF v < u THEN 70
    ELSE IF v = u THEN 90
    ELSE IF v * Tan25Num < u * Tan25Den THEN 110
    ELSE 155

\* np.arctan2(dy, dx), in (-360, 360]
arctan2(dy, dx) ==
    IF dx = 0 /\ dy = 0 THEN 0
    ELSE IF dx > 0 /\ dy >= 0 THEN FirstQuadrant(dx, dy)
    ELSE IF dx <= 0 /\ dy > 0 THEN 180 + FirstQuadrant(dy, -dx)
    ELSE IF dx < 0 /\ dy = 0 THEN Pi
    ELSE IF dx < 0 THEN FirstQuadrant(-dx, -dy) - Pi
    ELSE FirstQuadrant(-dy, dx) - 180

\* a[:n] on an axis of MAX_SIZE entries, n >= 0
SliceLen(n) == IF n > MAX_SIZE THEN MAX_SIZE ELSE n

\* The bounding box of get_cone: [xmin, ymin, n, k], the sample (i, j),
\* i < n, j < k, being the point (xmin + j*cellsize, ymin + i*cellsize).
BoundingBox(cs, minr, pose, view_distance) ==
    LET xmin == pose.x - view_distance - cs
        xmax == pose.x + view_distance + cs
        ymin == pose.y - view_distance - cs
        ymax == pose.y + view_distance + cs
        lo == cartesian2grid(cs, minr, xmin, ymin)
        hi == cartesian2grid(cs, minr, xmax, ymax)
        grid_size == <<hi[1] - lo[1], hi[2] - lo[2]>>
    IN  [xmin |-> xmin, ymin |-> ymin, n |-> SliceLen(grid_size[2]), k |-> SliceLen(grid_size[1])]

\* within_cone of one sample point (px, py)
within_cone(pose, view_angle, view_distance, px, py) ==
    LET dx == px - pose.x
        dy == py - pose.y
        rel_angle == (arctan2(dy, dx) % TwoPi) - (pose.theta % TwoPi)
    IN  /\ dx * dx + dy * dy <= view_distance * view_distance
        /\ -view_angle <= rel_angle
        /\ rel_angle <= view_angle

\* coordinates[within_cone]: the sample points in the cone, in mask order
ConePoints(cs, minr, pose, view_angle, view_distance) ==
    Bind(BoundingBox(cs, minr, pose, view_distance),
         LAMBDA bb :
             SelectSeq([q \in 1..(bb.n * bb.k) |->
                          <<bb.xmin + ((q - 1) % bb.k) * cs, bb.ymin + ((q - 1) \div bb.k) * cs>>],
                       LAMBDA p : within_cone(pose, view_angle, view_distance, p[1], p[2])))

\* a[:, k].min() and a[:, k].max() of a non-empty array of points
ColMin(s, k) ==
    LET S == {s[q][k] : q \in 1..Len(s)}
    IN  CHOOSE v \in S : \A w \in S : v <= w

ColMax(s, k) ==
    LET S == {s[q][k] : q \in 1..Len(s)}
    IN  CHOOSE v \in S : \A w \in S : v >= w

\* the result is [status, m]
_ensure_coordinates_exist(m, cs, cpb, coordinates) ==
    IF Len(coordinates) = 0 THEN [status |-> "ok", m |-> m]
    ELSE LET xmin == ColMin(coordinates, 1)
             xmax == ColMax(coordinates, 1)
             ymin == ColMin(coordinates, 2)
             ymax == ColMax(coordinates, 2)
         IN  Bind(_get_cell(m, cs, cpb, xmin, ymin),
                  LAMBDA lo :
                      IF lo.status # "ok" THEN [status |-> lo.status, m |-> lo.m]
                      ELSE Bind(_get_cell(lo.m, cs, cpb, xmax, ymax),
                                LAMBDA hi : [status |-> hi.status, m |-> hi.m]))

\* np_cartesian2grid on one point: (row, col)
np_cartesian2grid(cs, minr, p) == <<round(p[2], cs) - minr[1], round(p[1], cs) - minr[2]>>

\* the assertion without its lower bound
view_angle_ok_no_lower_bound(view_angle) == view_angle <= Pi

\* assert 0 <= view_angle <= math.pi
view_angle_ok(view_angle) == 0 <= view_angle /\ view_angle <= Pi

\* The result is [status, m, cells, dists]: the two arrays the code returns
\* as a pair, cells[q] = (row, col) and dists[q] the squared distance.
get_cone(m, cs, cpb, pose, cone_angle, view_distance) ==
    LET view_angle == cone_angle \div 2
    IN  IF ~view_angle_ok(view_angle)
        THEN [status |-> "AssertionError", m |-> m, cells |-> <<>>, dists |-> <<>>]
        ELSE Bind(ConePoints(cs, m.minrange, pose, view_angle, view_distance),
                  LAMBDA pts :
                      Bind(_ensure_coordinates_exist(m, cs, cpb, pts),
                           LAMBDA e :
                               IF e.status # "ok"
                               THEN [status |-> e.status, m |-> e.m, cells |-> <<>>, dists |-> <<>>]
                               ELSE [status |-> "ok", m |-> e.m,
                                     cells |-> [q \in 1..Len(pts) |->
                                                  np_cartesian2grid(cs, e.m.minrange, pts[q])],
                                     dists |-> [q \in 1..Len(pts) |->
                                                  (pts[q][1] - pose.x) * (pts[q][1] - pose.x)
                                                  + (pts[q][2] - pose.y) * (pts[q][2] - pose.y)]]))

(* -------------------- the callers of get_cone ------------------------- *)

\* CONE_ANGLE = 0.872664626 rad = 50 degrees, in half degrees
CONE_ANGLE == 100

\* readings above this are no detection (sensor_model.py line 49)
NoDetectionAbove == 130

\* An optional reading is <<>> for None and <<v>> for the number v.
None == <<>>

\* get_cone returns the pair (cells, dists).  distance_to_closest_object_in_cone
\* makes it the list [cells, dists] and sorts that list with key=snd, where snd
\* unpacks its argument into two names: a ValueError unless the array has
\* exactly two rows.  With two rows the keys are cells[1] (a row, col pair) and
\* dists[1] (a number), and comparing them yields a 2-vector whose truth value
\* is a ValueError.  The scan of lines 145-155 is never reached.
\* The result is [status, m, found].
distance_to_closest_object_in_cone(m, cs, cpb, pose, cone_width_angle, max_radius) ==
    Bind(get_cone(m, cs, cpb, pose, cone_width_angle, max_radius),
         LAMBDA c :
             IF c.status # "ok" THEN [status |-> c.status, m |-> c.m, found |-> <<>>]
             ELSE IF Len(c.cells) # 2 THEN [status |-> "ValueError", m |-> c.m, found |-> <<>>]
             ELSE [status |-> "ValueError", m |-> c.m, found |-> <<>>])

_measurement_per_angle(measurements) ==
    <<<<180, measurements.left>>, <<0, measurements.front>>, <<-180, measurements.right>>>>

\* update_map iterates `for (cell, d) in cone` over the pair (cells, dists):
\* the first item is the cells array, and unpacking it into (cell, d) is a
\* ValueError unless it has exactly two rows.  With two rows d is a (row, col)
\* pair, relative_dist a 2-vector, and `if relative_dist < 0.8` a ValueError.
\* So the first beam (left) always raises after its get_cone: lines 63 and 65
\* and the other two beams are never reached.  The result is [status, m].
update_map(m, cs, cpb, measurements, pose) ==
    LET beam == _measurement_per_angle(measurements)[1]
        measurement == ~(beam[2] = None \/ beam[2][1] > NoDetectionAbove)
        measured_dist == IF measurement THEN beam[2][1] ELSE NoDetectionAbove
        sensor_pose == [x |-> pose.x, y |-> pose.y, theta |-> pose.theta + beam[1]]
    IN  Bind(get_cone(m, cs, cpb, sensor_pose, CONE_ANGLE, measured_dist),
             LAMBDA cone :
                 IF cone.status # "ok" THEN [status |-> cone.status, m |-> cone.m]
                 ELSE IF Len(cone.cells) # 2 THEN [status |-> "ValueError", m |-> cone.m]
                 ELSE [status |-> "ValueError", m |-> cone.m])

(* ------------------------------ hardware ------------------------------ *)

\* A line is a sequence of one-character strings.
IsDigit(c) == c \in {"0", "1", "2", "3", "4", "5", "6", "7", "8", "9"}

DigitVal(c) ==
    CASE c = "0" -> 0 [] c = "1" -> 1 [] c = "2" -> 2 [] c = "3" -> 3 [] c = "4" -> 4
      [] c = "5" -> 5 [] c = "6" -> 6 [] c = "7" -> 7 [] c = "8" -> 8 [] c = "9" -> 9

\* str.strip(): drop leading and trailing blanks
RECURSIVE strip(_)
strip(line) ==
    IF Len(line) = 0 THEN line
    ELSE IF line[1] = " " THEN strip(Tail(line))
    ELSE IF line[Len(line)] = " " THEN strip(SubSeq(line, 1, Len(line) - 1))
    ELSE line

startswith(line, prefix) ==
    /\ Len(line) >= Len(prefix)
    /\ SubSeq(line, 1, Len(prefix)) = prefix

\* int(s) of a digit string: the value of s[i..j]
RECURSIVE int(_, _, _)
int(s, i, j) == IF j < i THEN 0 ELSE 10 * int(s, i, j - 1) + DigitVal(s[j])

\* \d+ at position i: the position after the longest run of digits, 0 if none
RECURSIVE DigitRun(_, _)
DigitRun(s, i) ==
    IF i <= Len(s) /\ IsDigit(s[i])
    THEN LET e == DigitRun(s, i + 1) IN IF e = 0 THEN i + 1 ELSE e
    ELSE 0

\* -?\d+ at position i
SignedRun(s, i) == IF i <= Len(s) /\ s[i] = "-" THEN DigitRun(s, i + 1) ELSE DigitRun(s, i)

\* a literal at position i: the position after it, 0 if it is not there
Lit(s, i, lit) ==
    IF i > 0 /\ i + Len(lit) - 1 <= Len(s) /\ SubSeq(s, i, i + Len(lit) - 1) = lit
    THEN i + Len(lit) ELSE 0

\* int() of the signed group s[i..j]
SignedInt(s, i, j) == IF s[i] = "-" THEN 0 - int(s, i + 1, j) ELSE int(s, i, j)

\* re.match('L(\d+)F(\d+)R(\d+)t(\d+)', line): the group bounds, or <<>>.
\* Each group is followed by a letter, so the longest run is the only match.
MatchSensor(s) ==
    LET a1 == Lit(s, 1, <<"L">>)
        b1 == IF a1 = 0 THEN 0 ELSE DigitRun(s, a1)
        a2 == Lit(s, b1, <<"F">>)
        b2 == IF a2 = 0 THEN 0 ELSE DigitRun(s, a2)
        a3 == Lit(s, b2, <<"R">>)
        b3 == IF a3 = 0 THEN 0 ELSE DigitRun(s, a3)
        a4 == Lit(s, b3, <<"t">>)
        b4 == IF a4 = 0 THEN 0 ELSE DigitRun(s, a4)
    IN  IF b4 = 0 THEN <<>> ELSE <<<<a1, b1 - 1>>, <<a2, b2 - 1>>, <<a3, b3 - 1>>, <<a4, b4 - 1>>>>

\* re.match('el(-?\d+)er(-?\d+)cor(-?\d+)t(\d+)', line)
MatchMotion(s) ==
    LET a1 == Lit(s, 1, <<"e", "l">>)
        b1 == IF a1 = 0 THEN 0 ELSE SignedRun(s, a1)
        a2 == Lit(s, b1, <<"e", "r">>)
        b2 == IF a2 = 0 THEN 0 ELSE SignedRun(s, a2)
        a3 == Lit(s, b2, <<"c", "o", "r">>)
        b3 == IF a3 = 0 THEN 0 ELSE SignedRun(s, a3)
        a4 == Lit(s, b3, <<"t">>)
        b4 == IF a4 = 0 THEN 0 ELSE DigitRun(s, a4)
    IN  IF b4 = 0 THEN <<>> ELSE <<<<a1, b1 - 1>>, <<a2, b2 - 1>>, <<a3, b3 - 1>>, <<a4, b4 - 1>>>>

\* An object is [kind, attrs]: attrs maps the attributes that were set.
\* SensorUpdate.__init__: the assert raises when the line does not match.
SensorUpdate(line) ==
    LET match == MatchSensor(line)
    IN  IF match = <<>> THEN [status |-> "AssertionError", obj |-> <<>>]
        ELSE [status |-> "ok",
              obj |-> <<[kind |-> "SensorUpdate",
                         attrs |-> [n \in {"left", "front", "right", "timedelta"} |->
                            CASE n = "left" -> int(line, match[1][1], match[1][2])
                              [] n = "front" -> int(line, match[2][1], match[2][2])
                              [] n = "right" -> int(line, match[3][1], match[3][2])
                              [] n = "timedelta" -> int(line, match[4][1], match[4][2])]]>>]

\* MotionUpdate.__init__: returns early, setting no attribute, when the line
\* does not match; the object is created all the same.
MotionUpdate(line) ==
    LET match == MatchMotion(line)
    IN  IF match = <<>>
        THEN [status |-> "ok", obj |-> <<[kind |-> "MotionUpdate", attrs |-> [n \in {} |-> 0]]>>]
        ELSE [status |-> "ok",
              obj |-> <<[kind |-> "MotionUpdate",
                         attrs |-> [n \in {"left", "right", "correction", "timedelta"} |->
                            CASE n = "left" -> SignedInt(line, match[2][1], match[2][2])
                              [] n = "right" -> SignedInt(line, match[1][1], match[1][2])
                              [] n = "correction" -> SignedInt(line, match[3][1], match[3][2])
                              [] n = "timedelta" -> int(line, match[4][1], match[4][2])]]>>]

\* parse(line): [status, obj], obj = <<>> for None
parse(line) ==
    IF startswith(line, <<"#">>) THEN [status |-> "ok", obj |-> <<>>]
    ELSE IF startswith(line, <<"L">>) THEN SensorUpdate(line)
    ELSE IF startswith(line, <<"e", "l">>) THEN MotionUpdate(line)
    ELSE [status |-> "ok", obj |-> <<>>]

\* the map of the current state
Self == [minrange |-> minrange, maxrange |-> maxrange, grid |-> grid]

cpbSelf == cells_per_block(blocksize, cellsize)

\* __init__: one block, then get_cell(-1, -1)
NewMap(bs, cs) ==
    LET cpb == cells_per_block(bs, cs)
        m0 == [minrange |-> <<0, 0>>, maxrange |-> <<cpb, cpb>>, grid |-> zeros(<<cpb, cpb>>)]
    IN  _get_cell(m0, cs, cpb, -1, -1)

NoCall == [op |-> "__init__", x |-> 0, y |-> 0, val |-> 0, theta |-> 0, a |-> 0, r |-> 0,
           meas |-> <<>>, status |-> "ok", ret |-> 0, cells |-> <<>>, dists |-> <<>>,
           grew |-> FALSE]

\* The state after OccupancyGridMap(blocksize, cellsize), for the pairs of cfgs
\* that pass the assertions of __init__.
InitMap(cfgs) ==
    \E cfg \in cfgs :
        /\ cfg[1] > 1
        /\ cfg[2] > 0
        /\ cfg[1] > cfg[2]
        /\ cfg[1] % cfg[2] = 0
        /\ blocksize = cfg[1]
        /\ cellsize = cfg[2]
        /\ \E r \in {NewMap(cfg[1], cfg[2])} :
               /\ r.status = "ok"
               /\ minrange = r.m.minrange
               /\ maxrange = r.m.maxrange
               /\ grid = r.m.grid
               /\ last = [NoCall EXCEPT !.grew = (Shape(r.m.grid) # <<cfg[1] \div cfg[2], cfg[1] \div cfg[2]>>)]
        /\ calls = 0
        /\ added = [c \in {} |-> 0]

\* Hardware.updates before its first line
InitHw ==
    /\ yielded = <<>>
    /\ nread = 0
    /\ hstatus = "running"
    /\ hlast = [line |-> <<>>, outcome |-> "none"]

Init == InitMap(Configs) /\ InitHw

\* the absolute cell (row, col) that (x, y) rounds to
AbsCell(x, y) == <<round(y, cellsize), round(x, cellsize)>>

SetMap(m) ==
    /\ minrange' = m.minrange
    /\ maxrange' = m.maxrange
    /\ grid' = m.grid

get_cell(x, y) ==
    /\ calls < MaxCalls
    /\ calls' = calls + 1
    /\ \E r \in {_get_cell(Self, cellsize, cpbSelf, x, y)} :
           /\ SetMap(r.m)
           /\ last' = [NoCall EXCEPT !.op = "get_cell", !.x = x, !.y = y,
                          !.status = r.status,
                          !.ret = IF r.status = "ok" THEN r.m.grid[r.row][r.col] ELSE 0,
                          !.grew = (r.m # Self)]
    /\ UNCHANGED <<blocksize, cellsize, added, yielded, nread, hstatus, hlast>>

add_to_cell(x, y, val) ==
    /\ calls < MaxCalls
    /\ calls' = calls + 1
    /\ \E r \in {_get_cell(Self, cellsize, cpbSelf, x, y)} :
           /\ IF r.status = "ok"
              THEN /\ SetMap([r.m EXCEPT !.grid[r.row][r.col] = @ + val])
                   /\ added' = [c \in DOMAIN added \cup {AbsCell(x, y)} |->
                                  (IF c \in DOMAIN added THEN added[c] ELSE 0)
                                  + (IF c = AbsCell(x, y) THEN val ELSE 0)]
              ELSE /\ SetMap(r.m)
                   /\ added' = added
           /\ last' = [NoCall EXCEPT !.op = "add_to_cell", !.x = x, !.y = y, !.val = val,
                          !.status = r.status, !.grew = (r.m # Self)]
    /\ UNCHANGED <<blocksize, cellsize, yielded, nread, hstatus, hlast>>

GetCone(pose, cone_angle, view_distance) ==
    /\ calls < MaxCalls
    /\ calls' = calls + 1
    /\ \E c \in {get_cone(Self, cellsize, cpbSelf, pose, cone_angle, view_distance)} :
           /\ SetMap(c.m)
           /\ last' = [NoCall EXCEPT !.op = "get_cone", !.x = pose.x, !.y = pose.y,
                          !.theta = pose.theta, !.a = cone_angle, !.r = view_distance,
                          !.status = c.status, !.cells = c.cells, !.dists = c.dists,
                          !.grew = (c.m # Self)]
    /\ UNCHANGED <<blocksize, cellsize, added, yielded, nread, hstatus, hlast>>

DistanceToClosestObjectInCone(pose, cone_width_angle, max_radius) ==
    /\ calls < MaxCalls
    /\ calls' = calls + 1
    /\ \E d \in {distance_to_closest_object_in_cone(Self, cellsize, cpbSelf, pose,
                                                      cone_width_angle, max_radius)} :
           /\ SetMap(d.m)
           /\ last' = [NoCall EXCEPT !.op = "distance_to_closest_object_in_cone",
                          !.x = pose.x, !.y = pose.y, !.theta = pose.theta,
                          !.a = cone_width_angle, !.r = max_radius,
                          !.status = d.status, !.dists = d.found,
                          !.grew = (d.m # Self)]
    /\ UNCHANGED <<blocksize, cellsize, added, yielded, nread, hstatus, hlast>>

UpdateMap(measurements, pose) ==
    /\ calls < MaxCalls
    /\ calls' = calls + 1
    /\ \E u \in {update_map(Self, cellsize, cpbSelf, measurements, pose)} :
           /\ SetMap(u.m)
           /\ last' = [NoCall EXCEPT !.op = "update_map",
                          !.x = pose.x, !.y = pose.y, !.theta = pose.theta,
                          !.meas = <<measurements.left, measurements.front, measurements.right>>,
                          !.status = u.status,
                          !.grew = (u.m # Self)]
    /\ UNCHANGED <<blocksize, cellsize, added, yielded, nread, hstatus, hlast>>

Next ==
    \/ \E p \in Points : get_cell(p[1], p[2])
    \/ \E p \in Points, d \in Deltas : add_to_cell(p[1], p[2], d)
    \/ \E q \in ConeQueries :
          GetCone([x |-> q.x, y |-> q.y, theta |-> q.theta], q.a, q.r)
    \/ \E q \in FrontierQueries :
          DistanceToClosestObjectInCone([x |-> q.x, y |-> q.y, theta |-> q.theta], CONE_ANGLE, q.r)
    \/ \E z \in Readings, p \in RobotPoses : UpdateMap(z, p)

Spec == Init /\ [][Next]_vars

\* One iteration of the loop of Hardware.updates on the next line of the
\* stream.  An exception ends the generator: no later line is read.
ReadLine(raw) ==
    /\ hstatus = "running"
    /\ nread < MaxLines
    /\ nread' = nread + 1
    /\ \E line \in {strip(raw)} : \E p \in {parse(line)} :
           IF line = <<>>
           THEN /\ hlast' = [line |-> raw, outcome |-> "skipped"]
                /\ UNCHANGED <<yielded, hstatus>>
           ELSE IF p.status # "ok"
           THEN /\ hlast' = [line |-> raw, outcome |-> "raised"]
                /\ hstatus' = p.status
                /\ UNCHANGED yielded
           ELSE IF p.obj # <<>>
           THEN /\ hlast' = [line |-> raw, outcome |-> "yielded"]
                /\ yielded' = Append(yielded, p.obj[1])
                /\ UNCHANGED hstatus
           ELSE /\ hlast' = [line |-> raw, outcome |-> "skipped"]
                /\ UNCHANGED <<yielded, hstatus>>
    /\ UNCHANGED mapVars

\* the data iterator is exhausted
EndOfStream ==
    /\ hstatus = "running"
    /\ hstatus' = "done"
    /\ UNCHANGED <<yielded, nread, hlast>>
    /\ UNCHANGED mapVars

NextHw ==
    \/ \E raw \in Lines : ReadLine(raw)
    \/ EndOfStream

InitStream == InitMap({<<100, 50>>}) /\ InitHw

SpecHw == InitStream /\ [][NextHw]_vars

\* The map with the default arguments, and the cell calls on it
InitDefault == InitMap({<<100, 5>>}) /\ InitHw

NextCells ==
    \/ \E p \in Points : get_cell(p[1], p[2])
    \/ \E p \in Points, d \in Deltas : add_to_cell(p[1], p[2], d)

SpecDefault == InitDefault /\ [][NextCells]_vars

(* ------------------------------ properties ---------------------------- *)

InBounds(c) ==
    /\ minrange[1] <= c[1] /\ c[1] < maxrange[1]
    /\ minrange[2] <= c[2] /\ c[2] < maxrange[2]

\* the value the grid holds for the absolute cell c
CellValue(c) == grid[c[1] - minrange[1]][c[2] - minrange[2]]

\* the sum of the deltas added to the absolute cell c so far
Added(c) == IF c \in DOMAIN added THEN added[c] ELSE 0

\* C1: every cell that add_to_cell has written is in the grid and holds the
\* sum of the deltas added to it, every other cell of the grid holds 0, and
\* a get_cell that returns, returns the sum of the deltas added to the cell
\* that (x, y) rounds to (0 for a cell never written), whatever growth steps
\* happened in between.
C1_GrowthPreservesData ==
    /\ \A c \in DOMAIN added : InBounds(c) /\ CellValue(c) = added[c]
    /\ \A i \in DOMAIN grid : \A j \in DOMAIN grid[i] :
          grid[i][j] = Added(<<i + minrange[1], j + minrange[2]>>)
    /\ (last.op = "get_cell" /\ last.status = "ok")
          => last.ret = Added(AbsCell(last.x, last.y))

\* a get_cell that grew the grid below the origin while a written cell exists
C1_Witness ==
    /\ last.op = "get_cell"
    /\ last.status = "ok"
    /\ last.grew
    /\ minrange[1] < 0
    /\ \E c \in DOMAIN added : added[c] # 0

\* C2: every get_cell / add_to_cell call returns without an error, and the
\* index of the requested cell then lies inside [0, shape) on both axes.
C2_AccessAlwaysInRange ==
    last.op \in {"get_cell", "add_to_cell"} =>
        /\ last.status = "ok"
        /\ LET rc == cartesian2grid(cellsize, minrange, last.x, last.y)
           IN  /\ 0 <= rc[1] /\ rc[1] < Shape(grid)[1]
               /\ 0 <= rc[2] /\ rc[2] < Shape(grid)[2]

\* the distance on the circle between two angles, in [0, Pi]
CircularDiff(a, b) ==
    LET d == (a - b) % TwoPi
    IN  IF d <= Pi THEN d ELSE TwoPi - d

\* the sample points of the bounding box of a cone query
BoxPoints(pose, view_distance) ==
    UNION {{<<bb.xmin + j * cellsize, bb.ymin + i * cellsize>> : i \in 0..(bb.n - 1), j \in 0..(bb.k - 1)} :
              bb \in {BoundingBox(cellsize, minrange, pose, view_distance)}}

\* the cells of the sector: distance at most r, bearing within a/2 of theta
SectorCells(pose, a, r) ==
    {np_cartesian2grid(cellsize, minrange, p) :
        p \in {q \in BoxPoints(pose, r) :
                 /\ (q[1] - pose.x) * (q[1] - pose.x) + (q[2] - pose.y) * (q[2] - pose.y) <= r * r
                 /\ 2 * CircularDiff(arctan2(q[2] - pose.y, q[1] - pose.x), pose.theta) <= a}}

\* C3: get_cone returns a cell of the bounding box exactly when its distance
\* from the apex is at most r and its bearing differs from theta by at most
\* a/2 as angles on the circle (for the cone angles 0 <= a <= pi of the
\* interface, and the calls in which growth did not fail).
C3_ConeIsCircularSector ==
    (last.op = "get_cone" /\ 0 <= last.a /\ last.a <= Pi /\ last.status # "RecursionError") =>
        /\ last.status = "ok"
        /\ {last.cells[q] : q \in 1..Len(last.cells)}
            = SectorCells([x |-> last.x, y |-> last.y, theta |-> last.theta], last.a, last.r)

\* C4: the grid's shape always equals maxrange - minrange, and in every step
\* no component of minrange increases and no component of maxrange decreases.
C4_MonotoneBounds ==
    /\ [](Shape(grid) = tsub(maxrange, minrange))
    /\ [][/\ minrange'[1] <= minrange[1] /\ minrange'[2] <= minrange[2]
          /\ maxrange'[1] >= maxrange[1] /\ maxrange'[2] >= maxrange[2]]_vars

\* a call that widened the bounds, with both signs of growth present
C4_Witness ==
    /\ last.grew
    /\ minrange[2] < 0
    /\ maxrange[1] > cells_per_block(blocksize, cellsize)

\* C5: the map constructed with the defaults has 4 blocks: minrange is
\* (-20, -20), maxrange (20, 20) and the grid 40 x 40.
C5_FourBlocksAtConstruction ==
    (calls = 0 /\ blocksize = 100 /\ cellsize = 5) =>
        /\ minrange = <<-20, -20>>
        /\ maxrange = <<20, 20>>
        /\ Shape(grid) = <<40, 40>>

\* C6: distance_to_closest_object_in_cone returns a list of (distance, value)
\* entries that is strictly increasing in both fields (in the calls in which
\* growth did not fail).
C6_FrontierReturnedIncreasing ==
    (last.op = "distance_to_closest_object_in_cone" /\ last.status # "RecursionError") =>
        /\ last.status = "ok"
        /\ \A q \in 1..(Len(last.dists) - 1) :
              /\ last.dists[q][1] < last.dists[q + 1][1]
              /\ last.dists[q][2] < last.dists[q + 1][2]

\* no detection: None, or a value above 130 such as the 9999 sentinel
Silent(z) == z = None \/ z[1] > NoDetectionAbove

\* C7: update_map run on an all-zero grid with three silent beams completes,
\* and afterwards no cell has a positive value (in the calls in which growth
\* did not fail).
C7_SilenceInsertsNoOccupied ==
    (/\ last.op = "update_map"
     /\ last.status # "RecursionError"
     /\ DOMAIN added = {}
     /\ \A b \in 1..3 : Silent(last.meas[b])) =>
        /\ last.status = "ok"
        /\ \A i \in DOMAIN grid : \A j \in DOMAIN grid[i] : grid[i][j] <= 0

\* C8 as stated: get_cone with a full cone angle a < 0 or a > pi is rejected
\* with an error before any work is done: no cell set is returned and grid,
\* minrange and maxrange are unchanged.
C8_RejectsOutsideZeroPi ==
    [][(/\ calls' = calls + 1
        /\ last'.op = "get_cone"
        /\ (last'.a < 0 \/ last'.a > Pi)) =>
           /\ last'.status # "ok"
           /\ last'.cells = <<>>
           /\ last'.dists = <<>>
           /\ grid' = grid
           /\ minrange' = minrange
           /\ maxrange' = maxrange]_vars

\* C8 amended: get_cone with a full cone angle a < 0 or a > 2*pi is rejected
\* with an AssertionError before any work is done: no cell set is returned
\* and grid, minrange and maxrange are unchanged.
C8_RejectsOutsideZeroTwoPi ==
    [][(/\ calls' = calls + 1
        /\ last'.op = "get_cone"
        /\ (last'.a < 0 \/ last'.a > TwoPi)) =>
           /\ last'.status = "AssertionError"
           /\ last'.cells = <<>>
           /\ last'.dists = <<>>
           /\ grid' = grid
           /\ minrange' = minrange
           /\ maxrange' = maxrange]_vars

\* a get_cone call with an angle above 2*pi that was rejected
C8_Witness ==
    /\ last.op = "get_cone"
    /\ last.a > TwoPi
    /\ last.status = "AssertionError"

WellFormed(obj) ==
    \/ obj.kind = "SensorUpdate" /\ DOMAIN obj.attrs = {"left", "front", "right", "timedelta"}
    \/ obj.kind = "MotionUpdate" /\ DOMAIN obj.attrs = {"left", "right", "correction", "timedelta"}

\* C9: Hardware.updates never raises, and every record it yields is a
\* well-formed SensorUpdate or MotionUpdate.
C9_StreamNeverRaises ==
    /\ hstatus \in {"running", "done"}
    /\ hlast.outcome # "raised"
    /\ \A q \in 1..Len(yielded) : WellFormed(yielded[q])

\* the three cones update_map asks for, each on the map the previous left
BeamCone(m, pose, z, b) ==
    LET beam == _measurement_per_angle([left |-> z[1], front |-> z[2], right |-> z[3]])[b]
    IN  get_cone(m, cellsize, cpbSelf,
                 [x |-> pose.x, y |-> pose.y, theta |-> pose.theta + beam[1]],
                 CONE_ANGLE,
                 IF Silent(beam[2]) THEN NoDetectionAbove ELSE beam[2][1])

\* C10: update_map completes; it changes only cells that get_cone returned for
\* one of its beams, and its writes do not grow the grid: the bounds after
\* the call are the bounds the three get_cone calls left (in the calls in
\* which growth did not fail).
C10_WritesOnlyConeCells ==
    [][(calls' = calls + 1 /\ last'.op = "update_map" /\ last'.status # "RecursionError") =>
          \A pose \in {[x |-> last'.x, y |-> last'.y, theta |-> last'.theta]} :
          \A c1 \in {BeamCone(Self, pose, last'.meas, 1)} :
          \A c2 \in {BeamCone(c1.m, pose, last'.meas, 2)} :
          \A c3 \in {BeamCone(c2.m, pose, last'.meas, 3)} :
              /\ last'.status = "ok"
              /\ minrange' = c3.m.minrange
              /\ maxrange' = c3.m.maxrange
              /\ \A i \in DOMAIN grid' : \A j \in DOMAIN grid'[i] :
                    grid'[i][j] # c3.m.grid[i][j] =>
                       <<i, j>> \in {c1.cells[q] : q \in 1..Len(c1.cells)}
                                    \cup {c2.cells[q] : q \in 1..Len(c2.cells)}
                                    \cup {c3.cells[q] : q \in 1..Len(c3.cells)}]_vars
====
